---- MODULE Spec2Model ----
(***************************************************************************)
(* The Conviva Experience Insights Prometheus exporter: one scrape is one  *)
(* call of Exporter.Collect, which fetches the upstream JSON document,     *)
(* parses it into a result structure and sends samples on the scrape's     *)
(* channel.  The repository holds two builds of the exporter:              *)
(*   keyed      src/main.go          (real-time-metrics API, named fields) *)
(*   positional src/unnamed/part_001 (metrics.json API, positional arrays) *)
(* The build is chosen once (variable variant) and never changes.          *)
(***************************************************************************)
EXTENDS Integers, Sequences, FiniteSets, TLC

VARIABLES
    variant,    \* which build runs: "keyed" or "positional"
    endpointOK, \* whether http.NewRequest accepts the URL built from the configuration
    proc,       \* the process: "running", "exited" (log.Fatalln), "panicked"
    pc,         \* per scrape goroutine: position inside Collect
    resp,       \* per scrape goroutine: the upstream outcome of client.Do / ReadAll
    data,       \* per scrape goroutine: qualityMetriclensData (None = nil)
    err,        \* per scrape goroutine: err returned by getQualityMetriclens (None = nil)
    ch,         \* per scrape goroutine: what was sent on this Collect's channel
    idx,        \* per scrape goroutine: number of loop steps updateMetrics has taken
    started,    \* number of Collect calls so far
    requests    \* number of client.Do calls so far

vars == <<variant, endpointOK, proc, pc, resp, data, err, ch, idx, started, requests>>

(***************************************************************************)
(* Bounds of the model.                                                    *)
(***************************************************************************)
MaxRows    == 2   \* rows in a data region
MaxMetrics == 2   \* metric entries in the varied row of a keyed payload
MaxShort   == 2   \* length of the short positional rows, and last malformed position
MaxExtra   == 1   \* how far a positional row may exceed the descriptor table
MaxScrapes == 2   \* Collect calls in one behaviour

None == <<>>
Some(x) == <<x>>

Min(a, b) == IF a < b THEN a ELSE b

RECURSIVE Flatten(_)
Flatten(ss) == IF ss = <<>> THEN <<>> ELSE Head(ss) \o Flatten(Tail(ss))

(***************************************************************************)
(* Descriptors (package-level vars of both builds).                        *)
(***************************************************************************)
namespace == "conviva_experience_insights"

variableLabels == <<"conviva_filter_id", "metriclens_dimension_value">>

BuildFQName(ns, name) == <<ns, name>>

NewDesc(fqName, labels) == [nil |-> FALSE, fqName |-> fqName, variableLabels |-> labels]

\* the zero value a map lookup of a missing key returns: a nil *prometheus.Desc
NilDesc == [nil |-> TRUE, fqName |-> <<>>, variableLabels |-> <<>>]

exporterUp == NewDesc(BuildFQName(namespace, "up"), <<>>)

\* main.go: map from metric key to descriptor
metricDescriptionsKeyed ==
    [k \in {"attempts", "bitrate", "connection_induced_rebuffering_ratio",
            "ended_plays", "exit_before_video_starts", "plays",
            "rebuffering_ratio", "video_playback_failures",
            "video_start_failures", "video_start_time"} |->
        NewDesc(BuildFQName(namespace,
                    CASE k = "bitrate" -> "average_bitrate"
                      [] k = "exit_before_video_starts" -> "exits_before_video_start"
                      [] OTHER -> k),
                variableLabels)]

\* metricDescriptions[metric.metricName] of a Go map: nil for a missing key
LookupDesc(key) ==
    IF key \in DOMAIN metricDescriptionsKeyed THEN metricDescriptionsKeyed[key] ELSE NilDesc

\* part_001: slice of descriptors, indexed by position in the response's metrics array
metricDescriptionsPositional ==
    [k \in 1..15 |->
        NewDesc(BuildFQName(namespace,
                    <<"attempts", "video_start_failures", "exits_before_video_start",
                      "plays", "video_start_time", "rebuffering_ratio",
                      "average_bitrate", "video_playback_failures", "ended_plays",
                      "connection_induced_rebuffering_ratio", "video_restart_time",
                      "video_start_failures_technical", "video_start_failures_business",
                      "video_playback_failures_technical",
                      "video_playback_failures_business">>[k]),
                variableLabels)]

NumDescs == Len(metricDescriptionsPositional)

(***************************************************************************)
(* prometheus.MustNewConstMetric: panics on a nil descriptor (nil pointer  *)
(* dereference of desc.err) and on a label-count mismatch.                 *)
(***************************************************************************)
MustNewConstMetric(desc, value, labelValues) ==
    IF desc.nil \/ Len(labelValues) # Len(desc.variableLabels)
    THEN [panic |-> TRUE, desc |-> desc, value |-> 0, labelValues |-> <<>>]
    ELSE [panic |-> FALSE, desc |-> desc, value |-> value, labelValues |-> labelValues]

UpSample(v) == MustNewConstMetric(exporterUp, v, <<>>)

(***************************************************************************)
(* jsonparser on the modelled documents.  An optional JSON field is        *)
(* [present, isString, s]; a keyed metric entry  "key": {field: n}  is     *)
(* [key, field, num, n] (num FALSE: the field holds a non-number); a       *)
(* positional array element is [num, n].                                   *)
(***************************************************************************)
Absent == [present |-> FALSE, isString |-> FALSE, s |-> ""]
Str(s) == [present |-> TRUE, isString |-> TRUE, s |-> s]
NonStr == [present |-> TRUE, isString |-> FALSE, s |-> "42"]

\* jsonparser.GetString(body, path...): ("", err) unless the path holds a string
GetString(f) ==
    IF f.present /\ f.isString THEN [s |-> f.s, err |-> FALSE] ELSE [s |-> "", err |-> TRUE]

\* the error GetString returns, as Go's err value
GetStringError(f) ==
    IF ~f.present
    THEN [msg |-> "Key path not found", arg |-> None, body |-> None]
    ELSE [msg |-> "Value is not a string: ", arg |-> Some(f.s), body |-> None]

\* jsonparser.GetFloat(value, sel): (0, err) unless value holds a number at sel
GetFloatField(value, sel) ==
    IF value.field = sel /\ value.num
    THEN [v |-> value.n, err |-> FALSE] ELSE [v |-> 0, err |-> TRUE]

\* jsonparser.GetFloat(metricVal) on an array element
GetFloatElem(e) == IF e.num THEN [v |-> e.n, err |-> FALSE] ELSE [v |-> 0, err |-> TRUE]

(***************************************************************************)
(* Errors, as the err value Collect logs: a message, the string appended   *)
(* to it (if any) and the raw response body carried (never, in the code).  *)
(***************************************************************************)
TransportError(kind) == [msg |-> kind, arg |-> None, body |-> None]

UpstreamError(reason) ==
    [msg |-> "Invalid response from API. Reason: ", arg |-> Some(reason), body |-> None]

WarmupError == [msg |-> "filter is warming up", arg |-> None, body |-> None]

(***************************************************************************)
(* Keyed build (src/main.go): the parser.                                  *)
(***************************************************************************)
NewMetricsData == [filterTitle |-> "", dimensionTitle |-> "", dimensions |-> <<>>]

\* The switch on metric.metricName inside the ObjectEach callback.  errIn is the
\* captured err on entry; the result is metric.value and the captured err after
\* the switch.  In the bitrate arm err is a new variable of the arm (":="), and
\* the division runs only when GetFloat failed.
metricSwitch(e, errIn) ==
    CASE e.key = "attempts" -> GetFloatField(e, "count")
      [] e.key = "bitrate" ->
            LET bps == GetFloatField(e, "bps")
            IN  [v |-> IF bps.err THEN bps.v \div 1000 ELSE 0, err |-> errIn]
      [] e.key = "connection_induced_rebuffering_ratio" -> GetFloatField(e, "ratio")
      [] e.key = "ended_plays" -> GetFloatField(e, "count")
      [] e.key = "exit_before_video_starts" -> GetFloatField(e, "percentage")
      [] e.key = "plays" -> GetFloatField(e, "percentage")
      [] e.key = "rebuffering_ratio" -> GetFloatField(e, "ratio")
      [] e.key = "video_playback_failures" -> GetFloatField(e, "percentage")
      [] e.key = "video_start_failures" -> GetFloatField(e, "percentage")
      [] e.key = "video_start_time" -> GetFloatField(e, "value")
      [] OTHER -> [v |-> 0, err |-> errIn]

\* jsonparser.ObjectEach over a row's "metrics" object, in encounter order.
\* errSet is the captured err of the enclosing row callback: when it is set on
\* entry of the callback, log.Fatalln ends the process.  Every entry that gets
\* past the check is appended, whatever the switch did.
RECURSIVE objectEachMetrics(_, _, _)
objectEachMetrics(entries, errSet, acc) ==
    IF entries = <<>> THEN [fatal |-> FALSE, metrics |-> acc]
    ELSE IF errSet THEN [fatal |-> TRUE, metrics |-> acc]
    ELSE LET e == Head(entries)
             r == metricSwitch(e, errSet)
         IN  objectEachMetrics(Tail(entries), r.err,
                               Append(acc, [metricName |-> e.key, value |-> r.v]))

\* jsonparser.ArrayEach over time_series[0].dimensional_data (the callback's
\* err parameter is nil for every element of a syntactically valid array).
RECURSIVE arrayEachRows(_, _)
arrayEachRows(rows, acc) ==
    IF rows = <<>> THEN [fatal |-> FALSE, dimensions |-> acc]
    ELSE LET row == Head(rows)
             dv  == GetString(row.dimValue)
         IN  IF dv.err THEN [fatal |-> TRUE, dimensions |-> acc]
             ELSE LET m == objectEachMetrics(row.metrics, FALSE, <<>>)
                  IN  IF m.fatal THEN [fatal |-> TRUE, dimensions |-> acc]
                      ELSE arrayEachRows(Tail(rows),
                               Append(acc, [dimensionValue |-> dv.s, metrics |-> m.metrics]))

\* mutant: only server errors count as failed
statusFailedMut(status) == status >= 500

\* the check of resp.StatusCode
statusFailed(status) == status # 200

\* mutant: the reason is used without looking at GetString's error
statusErrorMut(f) == UpstreamError(GetString(f).s)

\* what the failed status check returns; f is the body field holding the reason
statusError(f) ==
    LET g == GetString(f)
    IN  IF ~g.err THEN UpstreamError(g.s) ELSE GetStringError(f)

\* the metadata block: dimensionTitle and filterTitle
keyedTitles(body) ==
    LET dn == GetString(body.description)
        fi == GetString(body.filterId)
    IN  [dimensionTitle |-> IF dn.err THEN "Unknown" ELSE dn.s,
         filterTitle    |-> fi.s]

\* getQualityMetriclens of main.go on the outcome r of the fetch
getQualityMetriclensKeyed(r) ==
    IF r.kind # "http"
    THEN [fatal |-> FALSE, data |-> None, err |-> Some(TransportError(r.kind))]
    ELSE IF statusFailed(r.status)
    THEN [fatal |-> FALSE, data |-> None, err |-> Some(statusError(r.body.name))]
    ELSE LET t == keyedTitles(r.body)
             p == IF r.body.dimensional_data = None
                  THEN [fatal |-> FALSE, dimensions |-> <<>>]
                  ELSE arrayEachRows(r.body.dimensional_data[1], <<>>)
         IN  [fatal |-> p.fatal,
              data  |-> Some([NewMetricsData EXCEPT
                                 !.filterTitle = t.filterTitle,
                                 !.dimensionTitle = t.dimensionTitle,
                                 !.dimensions = p.dimensions]),
              err   |-> None]

(***************************************************************************)
(* Positional build (src/unnamed/part_001): the parser.                    *)
(***************************************************************************)
\* mutant: the presence of filters_warmup alone counts as warming up
isWarmingUpMut(body) == body.filters_warmup # None

\* the warm-up check: the callback runs once per element of filters_warmup
isWarmingUp(body) ==
    body.filters_warmup # None /\ Len(body.filters_warmup[1]) > 0

\* the inner ArrayEach over one row: elements GetFloat rejects are skipped
RECURSIVE metricsRow(_)
metricsRow(elems) ==
    IF elems = <<>> THEN <<>>
    ELSE LET f == GetFloatElem(Head(elems))
         IN  IF f.err THEN metricsRow(Tail(elems))
             ELSE <<f.v>> \o metricsRow(Tail(elems))

NewFilterTable(filterID) == [filterID |-> filterID, dimensions |-> <<>>]

\* the ObjectEach callback over quality_metriclens.tables: one FilterTable per key
filterTableOf(t) ==
    [NewFilterTable(t.filterID) EXCEPT
        !.dimensions = [j \in 1..Len(t.rows) |-> [metrics |-> metricsRow(t.rows[j])]]]

\* getQualityMetriclens of part_001 on the outcome r of the fetch
getQualityMetriclensPositional(r) ==
    IF r.kind # "http"
    THEN [fatal |-> FALSE, data |-> None, err |-> Some(TransportError(r.kind))]
    ELSE IF statusFailed(r.status)
    THEN [fatal |-> FALSE, data |-> None, err |-> Some(statusError(r.body.reason))]
    ELSE IF isWarmingUp(r.body)
    THEN [fatal |-> FALSE, data |-> None, err |-> Some(WarmupError)]
    ELSE [fatal |-> FALSE,
          data  |-> Some([filters |-> [i \in 1..Len(r.body.tables) |->
                                          filterTableOf(r.body.tables[i])],
                          dimensionTitles |-> r.body.xvalues]),
          err   |-> None]

getQualityMetriclens(v, r) ==
    IF v = "keyed" THEN getQualityMetriclensKeyed(r) ELSE getQualityMetriclensPositional(r)

(***************************************************************************)
(* updateMetrics: the sequence of loop steps, each a sample sent on the    *)
(* channel or a panic; nothing runs after a panic.                         *)
(***************************************************************************)
\* mutant: the loop stops one metric early
metricIndicesMut(n) == 1..(IF n > 0 THEN n - 1 ELSE 0)

\* for k := 0; k < len(dimension.metrics); k++
metricIndices(n) == 1..n

IndexPanic == [panic |-> TRUE, desc |-> NilDesc, value |-> 0, labelValues |-> <<>>]

RECURSIVE UntilPanic(_)
UntilPanic(evs) ==
    IF evs = <<>> THEN <<>>
    ELSE IF Head(evs).panic THEN <<Head(evs)>>
    ELSE <<Head(evs)>> \o UntilPanic(Tail(evs))

\* main.go: for j over dimensions, for k over dimension.metrics
updateMetricsKeyed(d) ==
    UntilPanic(Flatten(
        [j \in 1..Len(d.dimensions) |->
            [k \in metricIndices(Len(d.dimensions[j].metrics)) |->
                MustNewConstMetric(LookupDesc(d.dimensions[j].metrics[k].metricName),
                                   d.dimensions[j].metrics[k].value,
                                   <<d.filterTitle, d.dimensions[j].dimensionValue>>)]]))

\* part_001: for i over filters, for j over filter.dimensions (reading
\* data.dimensionTitles[j] first), for k over dimension.metrics (reading
\* metricDescriptions[k]); an index past the end of a slice panics.
updateMetricsPositional(d) ==
    UntilPanic(Flatten(Flatten(
        [i \in 1..Len(d.filters) |->
            [j \in 1..Len(d.filters[i].dimensions) |->
                IF j > Len(d.dimensionTitles) THEN <<IndexPanic>>
                ELSE [k \in metricIndices(Len(d.filters[i].dimensions[j].metrics)) |->
                        IF k > NumDescs THEN IndexPanic
                        ELSE MustNewConstMetric(metricDescriptionsPositional[k],
                                 d.filters[i].dimensions[j].metrics[k],
                                 <<d.filters[i].filterID, d.dimensionTitles[j]>>)]]])))

updateMetrics(v, d) ==
    IF v = "keyed" THEN updateMetricsKeyed(d) ELSE updateMetricsPositional(d)

(***************************************************************************)
(* Upstream documents the scrapes are run on.                              *)
(***************************************************************************)
SeqsUpTo(S, n) == UNION {[1..k -> S] : k \in 0..n}

\* lists of up to n rows, one of them drawn from rowSet, the others plain
OneVaried(rowSet, plain, n) ==
    {<<>>} \cup UNION {UNION {{[j \in 1..m |-> IF j = i THEN r ELSE plain] : r \in rowSet}
                                : i \in 1..m} : m \in 1..n}

EmptyBody ==
    [name |-> Absent, reason |-> Absent, description |-> Absent, filterId |-> Absent,
     dimensional_data |-> None, filters_warmup |-> None, xvalues |-> <<>>, tables |-> <<>>]

Names == <<"chrome", "safari", "firefox", "edge", "opera", "other">>

Entry(key, field, num, n) == [key |-> key, field |-> field, num |-> num, n |-> n]

\* the ten keys the keyed build recognises, with the sub-field each value lives in
KeyOrder ==
    <<"attempts", "bitrate", "connection_induced_rebuffering_ratio", "ended_plays",
      "exit_before_video_starts", "plays", "rebuffering_ratio",
      "video_playback_failures", "video_start_failures", "video_start_time">>

SelectorOf(key) ==
    CASE key \in {"attempts", "ended_plays"} -> "count"
      [] key = "bitrate" -> "bps"
      [] key \in {"connection_induced_rebuffering_ratio", "rebuffering_ratio"} -> "ratio"
      [] key = "video_start_time" -> "value"
      [] OTHER -> "percentage"

\* metric entries of the varied row: well-formed, selector field absent,
\* selector field non-numeric, and a key outside the recognised set
EntrySet ==
    {Entry("attempts", "count", TRUE, 120), Entry("attempts", "total", TRUE, 120),
     Entry("attempts", "count", FALSE, 0),
     Entry("bitrate", "bps", TRUE, 2000), Entry("bitrate", "bps", TRUE, 0),
     Entry("bitrate", "kbps", TRUE, 2), Entry("bitrate", "bps", FALSE, 0),
     Entry("bogus", "count", TRUE, 7)}

PlainRow == [dimValue |-> Str("safari"),
             metrics |-> <<Entry("plays", "percentage", TRUE, 97)>>]

VariedRows ==
    {[dimValue |-> d, metrics |-> m] :
        d \in {Absent, Str("chrome"), Str("safari")}, m \in SeqsUpTo(EntrySet, MaxMetrics)}

\* a row exposing every recognised metric, each with its selector field
FullRow(j) ==
    [dimValue |-> Str(Names[j]),
     metrics |-> [k \in 1..Len(KeyOrder) |->
                    Entry(KeyOrder[k], SelectorOf(KeyOrder[k]), TRUE, 1000 * k)]]

KeyedData(rows) ==
    [EmptyBody EXCEPT !.description = Str("Browser"), !.filterId = Str("myfilter"),
                      !.dimensional_data = Some(rows)]

KeyedBodies ==
    {KeyedData(rows) : rows \in OneVaried(VariedRows, PlainRow, MaxRows)}
    \cup {KeyedData([j \in 1..n |-> FullRow(j)]) : n \in 0..MaxRows}
    \cup {[EmptyBody EXCEPT !.description = d, !.filterId = f, !.dimensional_data = r] :
            d \in {Absent, Str("Browser")}, f \in {Absent, Str("myfilter")},
            r \in {None, Some(<<>>), Some(<<PlainRow>>)}}

\* positional rows: length L, element k holds the number k, except element
\* bad (if any), which holds a non-number
RowP(L, bad) == [k \in 1..L |-> [num |-> k # bad, n |-> k]]

RowLens == (0..MaxShort) \cup (NumDescs..(NumDescs + MaxExtra))

VariedRowsP == UNION {{RowP(L, bad) : bad \in 0..Min(L, MaxShort)} : L \in RowLens}

PlainRowP == RowP(1, 0)

FullRowP == RowP(NumDescs, 0)

Titles(t) == [j \in 1..t |-> Names[j]]

PositionalData(w, t, tables) ==
    [EmptyBody EXCEPT !.filters_warmup = w, !.xvalues = Titles(t), !.tables = tables]

\* the filter ids of CONVIVA_FILTER_IDS, which key the tables of a response
FilterIDs == <<"f1", "f2">>

\* nf tables: the first holds the given rows, the others one plain row
TablesOf(rows, nf) ==
    [i \in 1..nf |-> [filterID |-> FilterIDs[i],
                      rows |-> IF i = 1 THEN rows ELSE <<PlainRowP>>]]

\* nf tables of n rows, each row holding every metric
FullTables(n, nf) ==
    [i \in 1..nf |-> [filterID |-> FilterIDs[i], rows |-> [j \in 1..n |-> FullRowP]]]

\* varied rows with one title fewer, as many, and one more than rows; full
\* tables with a title per row; and the warm-up flag absent, empty and set
PositionalBodies ==
    UNION {{PositionalData(None, t, TablesOf(rows, nf)) :
                t \in {u \in (Len(rows) - 1)..(Len(rows) + 1) : u >= 0},
                nf \in 0..Len(FilterIDs)}
            : rows \in OneVaried(VariedRowsP, PlainRowP, MaxRows)}
    \cup {PositionalData(None, n, FullTables(n, nf)) :
            n \in 0..MaxRows, nf \in 1..Len(FilterIDs)}
    \cup {PositionalData(w, 1, TablesOf(<<PlainRowP>>, nf)) :
            w \in {None, Some(<<>>), Some(<<"f1">>)}, nf \in 0..1}

Bodies(v) == IF v = "keyed" THEN KeyedBodies ELSE PositionalBodies

\* bodies of error responses: the reason field absent, a string, or not a string
ErrorBodies(v) ==
    {[b EXCEPT !.name = f, !.reason = g] :
        b \in {EmptyBody, IF v = "keyed" THEN KeyedData(<<PlainRow>>)
                          ELSE PositionalData(None, 1, TablesOf(<<PlainRowP>>, 1))},
        f \in {Absent, Str("rate_limited"), NonStr},
        g \in {Absent, Str("bad_filter"), NonStr}}

Http(status, body) == [kind |-> "http", status |-> status, body |-> body]

\* http.NewRequest, client.Do or ReadAll returned an error
Failure(kind) == [kind |-> kind, status |-> 0, body |-> EmptyBody]

Failures == {Failure(k) : k \in {"build_err", "send_err", "read_err"}}

Responses(v) ==
    Failures
    \cup {Http(st, b) : st \in {401, 500}, b \in ErrorBodies(v)}
    \cup {Http(200, b) : b \in Bodies(v)}

\* the documents of the concurrent scrapes
ConcResponses(v) ==
    {Failure("send_err"), Http(500, [EmptyBody EXCEPT !.name = Str("rate_limited"),
                                                      !.reason = Str("bad_filter")])}
    \cup (IF v = "keyed"
          THEN {Http(200, KeyedData(rows)) :
                    rows \in {<<>>, <<PlainRow>>, <<PlainRow, PlainRow>>,
                              <<[PlainRow EXCEPT !.dimValue = Absent]>>,
                              <<[PlainRow EXCEPT !.metrics = <<Entry("bogus", "count", TRUE, 7)>>]>>}}
          ELSE {Http(200, PositionalData(w, t, TablesOf(rows, 1))) :
                    w \in {None, Some(<<"f1">>)}, t \in 0..1,
                    rows \in {<<>>, <<RowP(2, 0)>>, <<RowP(1, 0), RowP(1, 0)>>}})

(***************************************************************************)
(* The state machine: Exporter.Collect, one step at a time.                *)
(***************************************************************************)
Scrapers == {1, 2}

NoResp == Failure("none")

Init ==
    /\ variant \in {"keyed", "positional"}
    /\ endpointOK \in BOOLEAN
    /\ proc = "running"
    /\ pc = [s \in Scrapers |-> "idle"]
    /\ resp = [s \in Scrapers |-> NoResp]
    /\ data = [s \in Scrapers |-> None]
    /\ err = [s \in Scrapers |-> None]
    /\ ch = [s \in Scrapers |-> <<>>]
    /\ idx = [s \in Scrapers |-> 0]
    /\ started = 0
    /\ requests = 0

\* what the fetch can come to: http.NewRequest fails on every scrape or on none,
\* as the URL is built from the configuration alone
Outcomes(R, ok) ==
    IF ok THEN R \ {Failure("build_err")} ELSE {Failure("build_err")}

\* mutant: a request that failed to send is sent once more
requestsSentMut(r) ==
    CASE r.kind = "build_err" -> 0
      [] r.kind = "send_err" -> 2
      [] OTHER -> 1

\* calls of client.Do in one getQualityMetriclens: none when http.NewRequest
\* returned an error, else one
requestsSent(r) == IF r.kind = "build_err" THEN 0 ELSE 1

\* Collect is called with a fresh channel; getQualityMetriclens builds the
\* request, sends it and reads the body: r is the outcome.
Fetch(s, R) ==
    /\ proc = "running"
    /\ pc[s] = "idle"
    /\ started < MaxScrapes
    /\ \E r \in Outcomes(R, endpointOK) :
        /\ resp' = [resp EXCEPT ![s] = r]
        /\ requests' = requests + requestsSent(r)
    /\ started' = started + 1
    /\ pc' = [pc EXCEPT ![s] = "fetched"]
    /\ data' = [data EXCEPT ![s] = None]
    /\ err' = [err EXCEPT ![s] = None]
    /\ ch' = [ch EXCEPT ![s] = <<>>]
    /\ idx' = [idx EXCEPT ![s] = 0]
    /\ UNCHANGED <<variant, endpointOK, proc>>

\* the rest of getQualityMetriclens returns (data, err)
Parse(s) ==
    /\ proc = "running"
    /\ pc[s] = "fetched"
    /\ LET g == getQualityMetriclens(variant, resp[s])
       IN  /\ ~g.fatal
           /\ data' = [data EXCEPT ![s] = g.data]
           /\ err' = [err EXCEPT ![s] = g.err]
    /\ pc' = [pc EXCEPT ![s] = "parsed"]
    /\ UNCHANGED <<variant, endpointOK, proc, resp, ch, idx, started, requests>>

\* the rest of getQualityMetriclens reaches log.Fatalln: os.Exit(1)
ParseFatal(s) ==
    /\ proc = "running"
    /\ pc[s] = "fetched"
    /\ getQualityMetriclens(variant, resp[s]).fatal
    /\ proc' = "exited"
    /\ pc' = [pc EXCEPT ![s] = "fatal"]
    /\ UNCHANGED <<variant, endpointOK, resp, data, err, ch, idx, started, requests>>

\* Collect: err != nil sends up = 0 and returns
SendDown(s) ==
    /\ proc = "running"
    /\ pc[s] = "parsed"
    /\ err[s] # None
    /\ ch' = [ch EXCEPT ![s] = Append(@, UpSample(0))]
    /\ pc' = [pc EXCEPT ![s] = "done"]
    /\ UNCHANGED <<variant, endpointOK, proc, resp, data, err, idx, started, requests>>

\* Collect: err == nil sends up = 1 and calls updateMetrics
SendUp(s) ==
    /\ proc = "running"
    /\ pc[s] = "parsed"
    /\ err[s] = None
    /\ ch' = [ch EXCEPT ![s] = Append(@, UpSample(1))]
    /\ pc' = [pc EXCEPT ![s] = "emit"]
    /\ UNCHANGED <<variant, endpointOK, proc, resp, data, err, idx, started, requests>>

\* updateMetrics: the next loop step sends a sample
EmitSample(s) ==
    /\ proc = "running"
    /\ pc[s] = "emit"
    /\ LET evs == updateMetrics(variant, data[s][1])
       IN  /\ idx[s] < Len(evs)
           /\ ~evs[idx[s] + 1].panic
           /\ ch' = [ch EXCEPT ![s] = Append(@, evs[idx[s] + 1])]
    /\ idx' = [idx EXCEPT ![s] = @ + 1]
    /\ UNCHANGED <<variant, endpointOK, proc, resp, data, err, pc, started, requests>>

\* updateMetrics: the next loop step panics in the collector goroutine
EmitPanic(s) ==
    /\ proc = "running"
    /\ pc[s] = "emit"
    /\ LET evs == updateMetrics(variant, data[s][1])
       IN  /\ idx[s] < Len(evs)
           /\ evs[idx[s] + 1].panic
    /\ proc' = "panicked"
    /\ pc' = [pc EXCEPT ![s] = "panic"]
    /\ UNCHANGED <<variant, endpointOK, resp, data, err, ch, idx, started, requests>>

\* updateMetrics and Collect return
Return(s) ==
    /\ proc = "running"
    /\ pc[s] = "emit"
    /\ idx[s] = Len(updateMetrics(variant, data[s][1]))
    /\ pc' = [pc EXCEPT ![s] = "done"]
    /\ UNCHANGED <<variant, endpointOK, proc, resp, data, err, ch, idx, started, requests>>

\* the registry has gathered the channel and the scrape response is written:
\* the channel and every local of this Collect are gone
Respond(s) ==
    /\ proc = "running"
    /\ pc[s] = "done"
    /\ pc' = [pc EXCEPT ![s] = "idle"]
    /\ resp' = [resp EXCEPT ![s] = NoResp]
    /\ data' = [data EXCEPT ![s] = None]
    /\ err' = [err EXCEPT ![s] = None]
    /\ ch' = [ch EXCEPT ![s] = <<>>]
    /\ idx' = [idx EXCEPT ![s] = 0]
    /\ UNCHANGED <<variant, endpointOK, proc, started, requests>>

\* one scrape at a time
Next ==
    \E s \in {1} :
        \/ Fetch(s, Responses(variant))
        \/ Parse(s)
        \/ ParseFatal(s)
        \/ SendDown(s)
        \/ SendUp(s)
        \/ EmitSample(s)
        \/ EmitPanic(s)
        \/ Return(s)
        \/ Respond(s)

Spec == Init /\ [][Next]_vars

\* two simultaneous scrapes of the same Exporter
NextConc ==
    \E s \in Scrapers :
        \/ Fetch(s, ConcResponses(variant))
        \/ Parse(s)
        \/ ParseFatal(s)
        \/ SendDown(s)
        \/ SendUp(s)
        \/ EmitSample(s)
        \/ EmitPanic(s)
        \/ Return(s)
        \/ Respond(s)

SpecConc == Init /\ [][NextConc]_vars

(***************************************************************************)
(* Vocabulary of the properties.                                           *)
(***************************************************************************)
IsUp(m) == m.desc = exporterUp
IsData(m) == m.desc # exporterUp

UpSamples(c) == SelectSeq(c, IsUp)
DataSamples(c) == SelectSeq(c, IsData)

\* the scrape attempt of s is over: Collect returned, or the process ended under it
Over(s) == pc[s] \in {"done", "fatal", "panic"}

Ok200(r) == r.kind = "http" /\ r.status = 200

WholeScrapeError(r) == r.kind # "http" \/ r.status # 200

RowsOf(body) == IF body.dimensional_data = None THEN <<>> ELSE body.dimensional_data[1]

AllRowsP(body) == Flatten([i \in 1..Len(body.tables) |-> body.tables[i].rows])

Recognized == DOMAIN metricDescriptionsKeyed

GoodEntry(e) == e.key \in Recognized /\ e.field = SelectorOf(e.key) /\ e.num

\* C1: every scrape attempt emits exactly one liveness sample, valued 1 when
\* fetch-and-parse returned no error and 0 when it returned one; never zero
\* and never two liveness samples per attempt.
C1_OneLivenessSample ==
    \A s \in Scrapers :
        /\ Len(UpSamples(ch[s])) <= 1
        /\ Over(s) => /\ Len(UpSamples(ch[s])) = 1
                      /\ UpSamples(ch[s])[1].value = (IF err[s] = None THEN 1 ELSE 0)

\* C2: on a whole-scrape error (request not built or sent, body not read,
\* status other than 200) updateMetrics is never reached, no data sample is
\* ever on the channel, and the finished scrape's output is exactly one
\* liveness sample valued 0.
C2_ErrorShortCircuits ==
    \A s \in Scrapers :
        (pc[s] # "idle" /\ WholeScrapeError(resp[s])) =>
            /\ pc[s] \in {"fetched", "parsed", "done"}
            /\ DataSamples(ch[s]) = <<>>
            /\ pc[s] = "done" => ch[s] = <<UpSample(0)>>
            /\ pc[s] # "done" => ch[s] = <<>>

C2_Witness ==
    \E s \in Scrapers :
        /\ pc[s] = "done"
        /\ resp[s].kind = "http" /\ resp[s].status = 500
        /\ resp[s].body.dimensional_data # None \/ resp[s].body.tables # <<>>
        /\ ch[s] = <<UpSample(0)>>

\* C3: no upstream response ends the process: no reachable state is a process
\* exit (log.Fatalln) or an unrecovered panic.
C3_ProcessSurvives == proc = "running"

\* C4: a well-formed status-200 payload with N rows, each exposing the full
\* metric set of M metrics, gives exactly N * M data samples after exactly one
\* liveness sample valued 1, and the scrape neither exits nor panics; N = 0
\* gives the liveness sample alone.
WellFormedFull(v, body) ==
    IF v = "keyed"
    THEN \A j \in 1..Len(RowsOf(body)) :
            LET row == RowsOf(body)[j]
            IN  /\ GetString(row.dimValue).err = FALSE
                /\ Len(row.metrics) = Cardinality(Recognized)
                /\ {row.metrics[k].key : k \in 1..Len(row.metrics)} = Recognized
                /\ \A k \in 1..Len(row.metrics) : GoodEntry(row.metrics[k])
    ELSE /\ body.filters_warmup = None \/ body.filters_warmup = Some(<<>>)
         /\ \A i \in 1..Len(body.tables) :
                /\ Len(body.tables[i].rows) = Len(body.xvalues)
                /\ \A j \in 1..Len(body.tables[i].rows) :
                      /\ Len(body.tables[i].rows[j]) = NumDescs
                      /\ \A k \in 1..NumDescs : body.tables[i].rows[j][k].num

RowCount(v, body) == IF v = "keyed" THEN Len(RowsOf(body)) ELSE Len(AllRowsP(body))

MetricCount(v) == IF v = "keyed" THEN Cardinality(Recognized) ELSE NumDescs

C4_FullPayloadCount ==
    \A s \in Scrapers :
        (pc[s] # "idle" /\ Ok200(resp[s]) /\ WellFormedFull(variant, resp[s].body)) =>
            /\ pc[s] \notin {"fatal", "panic"}
            /\ pc[s] = "done" =>
                /\ Len(ch[s]) = 1 + RowCount(variant, resp[s].body) * MetricCount(variant)
                /\ ch[s][1] = UpSample(1)
                /\ Len(DataSamples(ch[s])) = Len(ch[s]) - 1

C4_Witness ==
    \E s \in Scrapers :
        /\ pc[s] = "done" /\ Ok200(resp[s]) /\ WellFormedFull(variant, resp[s].body)
        /\ RowCount(variant, resp[s].body) = 2
        /\ Len(DataSamples(ch[s])) = 2 * MetricCount(variant)

\* C5: keyed build: when the rows of a status-200 payload hold keys outside
\* the recognised set beside well-formed recognised ones, the scrape succeeds
\* and each row gives exactly as many data samples as it has recognised keys.
UnknownKeysOnly(body) ==
    /\ \A j \in 1..Len(RowsOf(body)) :
          /\ GetString(RowsOf(body)[j].dimValue).err = FALSE
          /\ \A k \in 1..Len(RowsOf(body)[j].metrics) :
                LET e == RowsOf(body)[j].metrics[k]
                IN  e.key \in Recognized => GoodEntry(e)
    /\ \E j \in 1..Len(RowsOf(body)) : \E k \in 1..Len(RowsOf(body)[j].metrics) :
          RowsOf(body)[j].metrics[k].key \notin Recognized

IsGoodEntry(e) == GoodEntry(e)

GoodCount(body) ==
    Len(Flatten([j \in 1..Len(RowsOf(body)) |-> SelectSeq(RowsOf(body)[j].metrics, IsGoodEntry)]))

C5_UnknownKeySkipped ==
    \A s \in Scrapers :
        (variant = "keyed" /\ pc[s] # "idle" /\ Ok200(resp[s]) /\ UnknownKeysOnly(resp[s].body)) =>
            /\ pc[s] \notin {"fatal", "panic"}
            /\ pc[s] = "done" => /\ ch[s][1] = UpSample(1)
                                 /\ Len(DataSamples(ch[s])) = GoodCount(resp[s].body)

\* C6: keyed build: when a recognised metric of a status-200 payload lacks its
\* selector field or holds a non-number there, the scrape still succeeds
\* (liveness 1, no exit, no panic) and emits exactly the samples of the
\* entries whose selector field holds a number.
MissingSelectorOnly(body) ==
    /\ \A j \in 1..Len(RowsOf(body)) :
          /\ GetString(RowsOf(body)[j].dimValue).err = FALSE
          /\ \A k \in 1..Len(RowsOf(body)[j].metrics) :
                RowsOf(body)[j].metrics[k].key \in Recognized
    /\ \E j \in 1..Len(RowsOf(body)) : \E k \in 1..Len(RowsOf(body)[j].metrics) :
          ~GoodEntry(RowsOf(body)[j].metrics[k])

C6_SampleErrorStaysLocal ==
    \A s \in Scrapers :
        (variant = "keyed" /\ pc[s] # "idle" /\ Ok200(resp[s]) /\ MissingSelectorOnly(resp[s].body)) =>
            /\ pc[s] \notin {"fatal", "panic"}
            /\ pc[s] = "done" => /\ ch[s][1] = UpSample(1)
                                 /\ Len(DataSamples(ch[s])) = GoodCount(resp[s].body)

\* C7: on a successful scrape every emitted data sample carries the filter
\* identifier of its response and the grouping value of its row as its two
\* label values, the descriptor registered for its metric, and the number
\* found at that metric's selector field (bitrate: in kilobits per second).
FromResponse(v, body, m) ==
    IF v = "keyed"
    THEN \E j \in 1..Len(RowsOf(body)) : \E k \in 1..Len(RowsOf(body)[j].metrics) :
            LET e == RowsOf(body)[j].metrics[k]
            IN  /\ GoodEntry(e)
                /\ m.desc = metricDescriptionsKeyed[e.key]
                /\ m.value = (IF e.key = "bitrate" THEN e.n \div 1000 ELSE e.n)
                /\ m.labelValues = <<body.filterId.s, RowsOf(body)[j].dimValue.s>>
    ELSE \E i \in 1..Len(body.tables) : \E j \in 1..Len(body.tables[i].rows) :
         \E k \in 1..Min(NumDescs, Len(body.tables[i].rows[j])) :
            /\ j <= Len(body.xvalues)
            /\ body.tables[i].rows[j][k].num
            /\ m.desc = metricDescriptionsPositional[k]
            /\ m.value = body.tables[i].rows[j][k].n
            /\ m.labelValues = <<body.tables[i].filterID, body.xvalues[j]>>

C7_SamplesCarryTheirSource ==
    \A s \in Scrapers : \A n \in 1..Len(ch[s]) :
        IsData(ch[s][n]) => FromResponse(variant, resp[s].body, ch[s][n])

\* C8 as amended: a response with a status other than 200 fails the scrape;
\* the error carries the reason string of the body when that field is a
\* string, and otherwise it is the JSON parser's own error ("Key path not
\* found", or "Value is not a string" with the field's text); the raw body is
\* never carried.
ReasonField(v, body) == IF v = "keyed" THEN body.name ELSE body.reason

C8_UpstreamErrorMessage ==
    \A s \in Scrapers :
        (pc[s] \in {"parsed", "done"} /\ resp[s].kind = "http" /\ resp[s].status # 200) =>
            LET f == ReasonField(variant, resp[s].body)
            IN  /\ err[s] # None
                /\ err[s][1].body = None
                /\ (f.present /\ f.isString) =>
                      /\ err[s][1].msg = "Invalid response from API. Reason: "
                      /\ err[s][1].arg = Some(f.s)
                /\ ~f.present =>
                      /\ err[s][1].msg = "Key path not found"
                      /\ err[s][1].arg = None
                /\ (f.present /\ ~f.isString) =>
                      /\ err[s][1].msg = "Value is not a string: "
                      /\ err[s][1].arg = Some(f.s)

C8_Witness ==
    \E s \in Scrapers :
        /\ pc[s] = "done" /\ resp[s].kind = "http" /\ resp[s].status = 500
        /\ ~ReasonField(variant, resp[s].body).present
        /\ resp[s].body # EmptyBody
        /\ err[s] # None /\ err[s][1].msg = "Key path not found"

\* C8 as claimed: the error carries the reason when the field is present and
\* the raw response body when the field cannot be extracted.
C8_RawBodyCarried ==
    \A s \in Scrapers :
        (pc[s] \in {"parsed", "done"} /\ resp[s].kind = "http" /\ resp[s].status # 200) =>
            LET f == ReasonField(variant, resp[s].body)
            IN  /\ err[s] # None
                /\ (f.present /\ f.isString) => err[s][1].arg = Some(f.s)
                /\ ~(f.present /\ f.isString) => err[s][1].body = Some(resp[s].body)

\* C9: positional build: a status-200 payload whose filters_warmup array
\* holds an element fails the scrape before any title or row is parsed
\* (liveness 0, no data sample); an absent or empty filters_warmup is not a
\* warm-up and the payload is parsed.
WarmupElems(body) == IF body.filters_warmup = None THEN <<>> ELSE body.filters_warmup[1]

C9_WarmupFailsScrape ==
    \A s \in Scrapers :
        (variant = "positional" /\ Ok200(resp[s]) /\ pc[s] \notin {"idle", "fetched"}) =>
            IF Len(WarmupElems(resp[s].body)) >= 1
            THEN /\ err[s] = Some(WarmupError)
                 /\ data[s] = None
                 /\ pc[s] \in {"parsed", "done"}
                 /\ pc[s] = "done" => ch[s] = <<UpSample(0)>>
                 /\ pc[s] = "parsed" => ch[s] = <<>>
            ELSE /\ err[s] = None
                 /\ data[s] # None
                 /\ data[s][1].dimensionTitles = resp[s].body.xvalues
                 /\ Len(data[s][1].filters) = Len(resp[s].body.tables)
                 /\ pc[s] # "parsed" => ch[s][1] = UpSample(1)

C9_Witness ==
    \E s \in Scrapers :
        /\ variant = "positional" /\ pc[s] = "done" /\ Ok200(resp[s])
        /\ Len(WarmupElems(resp[s].body)) >= 1
        /\ resp[s].body.tables # <<>> /\ resp[s].body.xvalues # <<>>
        /\ ch[s] = <<UpSample(0)>>

\* C10: under every interleaving of two scrapes, each scrape sends on its own
\* channel exactly what it would send running alone on its own response:
\* always a prefix of that output, and all of it once the scrape is over or
\* the process has ended.
RECURSIVE Sent(_)
Sent(evs) ==
    IF evs = <<>> THEN <<>>
    ELSE IF Head(evs).panic THEN <<>> ELSE <<Head(evs)>> \o Sent(Tail(evs))

AloneOutput(v, r) ==
    LET g == getQualityMetriclens(v, r)
    IN  IF g.fatal THEN <<>>
        ELSE IF g.err # None THEN <<UpSample(0)>>
        ELSE <<UpSample(1)>> \o Sent(updateMetrics(v, g.data[1]))

IsPrefix(a, b) == Len(a) <= Len(b) /\ SubSeq(b, 1, Len(a)) = a

C10_ScrapesIsolated ==
    \A s \in Scrapers :
        pc[s] # "idle" =>
            /\ IsPrefix(ch[s], AloneOutput(variant, resp[s]))
            /\ (Over(s) \/ proc # "running") => ch[s] = AloneOutput(variant, resp[s])

\* C11 as amended: a scrape sends one upstream GET, exactly once and without
\* retry, unless the request cannot be built from the configuration, in
\* which case it sends none; and what a scrape sends on its channel is
\* decided by its own upstream outcome alone, whatever earlier scrapes got.
C11_OneRequestPerScrape ==
    /\ requests <= started
    /\ endpointOK => requests = started
    /\ ~endpointOK => requests = 0
    /\ \A s \in {1} :
          pc[s] # "idle" =>
              /\ IsPrefix(ch[s], AloneOutput(variant, resp[s]))
              /\ pc[s] = "done" => ch[s] = AloneOutput(variant, resp[s])

\* a second scrape that got data, after a first one that sent its request
C11_Witness ==
    /\ started = 2 /\ requests = 2
    /\ pc[1] = "done"
    /\ Ok200(resp[1])
    /\ Len(DataSamples(ch[1])) >= 2

\* C11 as claimed: after any sequence of scrapes the number of upstream
\* requests equals the number of scrapes started.
C11_RequestsEqualScrapes == requests = started

\* C12: within the output of one scrape no two data samples identify the
\* same time series: any two of them differ in descriptor or in one of the two
\* label values.
SameSeries(a, b) == a.desc = b.desc /\ a.labelValues = b.labelValues

C12_SeriesUnique ==
    \A s \in Scrapers : \A i, j \in 1..Len(ch[s]) :
        (i < j /\ IsData(ch[s][i]) /\ IsData(ch[s][j])) => ~SameSeries(ch[s][i], ch[s][j])

\* C13: keyed build: after the parse of a status-200 payload, dimensionTitle
\* is "Unknown" when _meta.group_by_dimension.description is absent and
\* filterTitle is "Unknown" when _meta.filter_info.id is absent; the parse
\* does not fail for either.
C13_UnknownTitles ==
    \A s \in Scrapers :
        (variant = "keyed" /\ Ok200(resp[s]) /\ pc[s] \in {"parsed", "emit", "done"}) =>
            /\ err[s] = None
            /\ data[s] # None
            /\ ~resp[s].body.description.present => data[s][1].dimensionTitle = "Unknown"
            /\ ~resp[s].body.filterId.present => data[s][1].filterTitle = "Unknown"

\* C14: positional build: when a table holds R rows and the header T titles,
\* the scrape succeeds without a panic and emits samples for the first
\* min(T, R) rows only, each under the title of its position.
ShortNumericRows(body) ==
    \A i \in 1..Len(body.tables) : \A j \in 1..Len(body.tables[i].rows) :
        /\ Len(body.tables[i].rows[j]) <= NumDescs
        /\ \A k \in 1..Len(body.tables[i].rows[j]) : body.tables[i].rows[j][k].num

TruncatedCount(body) ==
    Len(Flatten(Flatten(
        [i \in 1..Len(body.tables) |->
            [j \in 1..Min(Len(body.xvalues), Len(body.tables[i].rows)) |->
                body.tables[i].rows[j]]])))

C14_TruncatesToShorter ==
    \A s \in Scrapers :
        (variant = "positional" /\ Ok200(resp[s]) /\ ~isWarmingUp(resp[s].body)
            /\ ShortNumericRows(resp[s].body) /\ pc[s] # "idle") =>
            /\ pc[s] # "panic"
            /\ pc[s] = "done" =>
                  /\ ch[s][1] = UpSample(1)
                  /\ Len(DataSamples(ch[s])) = TruncatedCount(resp[s].body)

\* C15: positional build: every value is emitted under the descriptor whose
\* declaration index is the value's position in its row of the response, and
\* no descriptor at or beyond the table length is read (no panic), also for
\* rows holding a non-number and rows longer than the descriptor table.
TitledRows(body) ==
    \A i \in 1..Len(body.tables) : Len(body.tables[i].rows) <= Len(body.xvalues)

AtOwnPosition(body, m) ==
    \E i \in 1..Len(body.tables) : \E j \in 1..Len(body.tables[i].rows) :
    \E k \in 1..Len(body.tables[i].rows[j]) :
        /\ k <= NumDescs
        /\ m.desc = metricDescriptionsPositional[k]
        /\ body.tables[i].rows[j][k].num
        /\ body.tables[i].rows[j][k].n = m.value

C15_PositionalAlignment ==
    \A s \in Scrapers :
        (variant = "positional" /\ Ok200(resp[s]) /\ TitledRows(resp[s].body)
            /\ pc[s] # "idle") =>
            /\ pc[s] # "panic"
            /\ \A n \in 1..Len(ch[s]) :
                  IsData(ch[s][n]) => AtOwnPosition(resp[s].body, ch[s][n])

\* C16: keyed build: the average_bitrate sample of a row whose bitrate metric
\* holds the number b at bps has the value b / 1000, and the value 0 when
\* bps cannot be read.
BitrateOf(body, m) ==
    \E j \in 1..Len(RowsOf(body)) : \E k \in 1..Len(RowsOf(body)[j].metrics) :
        LET e == RowsOf(body)[j].metrics[k]
        IN  /\ e.key = "bitrate"
            /\ m.labelValues[2] = RowsOf(body)[j].dimValue.s
            /\ m.value = (IF GoodEntry(e) THEN e.n \div 1000 ELSE 0)

C16_BitrateInKbps ==
    \A s \in Scrapers : \A n \in 1..Len(ch[s]) :
        (variant = "keyed" /\ ch[s][n].desc = metricDescriptionsKeyed["bitrate"]) =>
            BitrateOf(resp[s].body, ch[s][n])

====
